---- MODULE Spec2Model ----
(***************************************************************************)
(* Model of the SSH tunnel of db-backup-go (src/data/ssh_tunnel.go): the   *)
(* SSHTunnel object, its Start and Stop methods as called by one caller,   *)
(* the forwardTunnel accept loops it launches, the forwarded connections   *)
(* and their two copy tasks.  The ssh and net packages are the environment:*)
(* dials, binds and accepts succeed or fail nondeterministically, and a    *)
(* sub-channel lives only as long as the session that carries it.          *)
(***************************************************************************)
EXTENDS Integers, Sequences, FiniteSets, TLC

\* ---------------------------------------------------------------- bounds
MaxCalls == 3      \* Start/Stop calls made by the caller
MaxConns == 2      \* local clients that connect to the tunnel
MaxPort  == 1      \* free ports the OS may hand out: 1..MaxPort
MaxPath  == 3      \* length of a key path, in characters
MaxFiles == 2      \* entries under a database's backup directory or prefix
MaxTime  == 2      \* modification times: 1..MaxTime
MaxRetain == 1     \* retention counts: 0..MaxRetain
MaxClients == 2    \* local clients accepted while bytes are relayed
MaxHost == 3       \* length of the remote host name, in bytes
MaxOps == 3        \* calls made on a DatabaseGateway
MaxNames == 2      \* connection names: 1..MaxNames
MaxDbs == 3        \* databases ListDatabases returns
MaxBytes == 2      \* bytes written by all clients and targets together

Ports == 1..MaxPort

\* ----------------------------------------------------------------- state
VARIABLES
  bastionHost,   \* "" (direct mode) or the bastion's host name
  localPort,     \* t.localPort
  server,        \* t.server: 0 is nil, else an index into lst
  bastionConn,   \* t.bastionConn: 0 is nil, else an index into sess
  targetConn,    \* t.targetConn: 0 is nil, else an index into sess
  stopChan,      \* t.stopChan: "open" or "closed"
  lst,           \* listeners bound by Start: [port, open]
  sess,          \* ssh sessions established: [kind, via, open]
  relay,         \* raw channels dialed through a bastion: [via, open]
  loops,         \* forwardTunnel goroutines: [pc, cur, srv, tc]
  conns,         \* accepted local connections
  callerPc,      \* where the caller is inside Start ("idle": between calls)
  hist,          \* completed Start/Stop calls, in order: [op, ok, port, err]
  panic          \* "none", or the runtime panic that ended the process

\* loadSSHKey, called on its own
VARIABLES
  keyPath,       \* the keyPath argument, a string of characters
  keyFs,         \* what the file system holds at the path that is read
  keyOut         \* "pending", or the outcome of the call

keyVars == <<keyPath, keyFs, keyOut>>

\* a connection of connections.json, the gateway and tunnel built from it,
\* and the key loads and dials of one Start
VARIABLES
  conn,          \* the Connection record (its SSH fields)
  files,         \* key path -> what the file system holds there
  tun,           \* the SSHTunnel NewDatabaseGateway built, or NoTunnel
  iolog,         \* key loads and network dials made so far, in order
  gpc,           \* where the run is: "new", the steps of Start, "done"
  gerr           \* the error Start returned: [step, cause]

cfgVars == <<conn, files, tun, iolog, gpc, gerr>>

\* one call of StorageGateway.CleanupBackups
VARIABLES
  store,         \* the entries listed for the database: [kind, mtime, fail]
  retain,        \* retentionCount
  cmode,         \* "local" or "s3"
  cout           \* NoCleanup, or what the call did: [doomed, removed, err]

cleanVars == <<store, retain, cmode, cout>>

\* the bytes relayed by forwardTunnel's copy tasks
VARIABLES
  rsock,         \* accepted sockets: [open, chan, wr, dl]
  rchan,         \* direct-tcpip channels: [open, wr, dl]
  rtask          \* copy tasks: [sock, chan, dir, buf, pos, pc]

relayVars == <<rsock, rchan, rtask>>

\* the direct-tcpip payload forwardTunnel builds for a connection
VARIABLES
  rhost,         \* t.remoteHost, as bytes
  rport,         \* t.remotePort
  payload        \* channelData, <<>> before it is built

payVars == <<rhost, rport, payload>>

\* a DatabaseGateway with a tunnel, and the calls made on it
VARIABLES
  dg,            \* the gateway: [host, port, effectiveHost, effectivePort]
  dt,            \* its sshTunnel: [localPort, server, targetConn, stopChan]
  dlog,          \* completed calls: [op, err, host, port]
  dpanic         \* "none", or the panic that ended the process

gwVars == <<dg, dt, dlog, dpanic>>

\* connections.json and the last edit made through a ConnectionManager
VARIABLES
  cfile,         \* the file's content: name -> JSON object
  cbroken,       \* the file was truncated by a failed write
  cres           \* the last edit: [op, name, val, err]

cmVars == <<cfile, cbroken, cres>>

\* one call of BackupUseCase.Execute
VARIABLES
  udbs,          \* per listed database, the step that fails for it ("" none)
  umode,         \* "local" (backupDir set), "s3", or "none"
  ures           \* NoRun, or what Execute did: [err, log]

ucVars == <<udbs, umode, ures>>

\* the variables outside the tunnel's lifecycle
aux == <<ucVars, cmVars, gwVars, payVars, keyVars, cfgVars, cleanVars, relayVars>>

\* the tunnel, its goroutines and its caller
tvars == <<bastionHost, localPort, server, bastionConn, targetConn, stopChan,
           lst, sess, relay, loops, conns, callerPc, hist, panic>>

vars == <<bastionHost, localPort, server, bastionConn, targetConn, stopChan,
          lst, sess, relay, loops, conns, callerPc, hist, panic, aux>>

tunnel == <<localPort, server, bastionConn, targetConn, stopChan>>

\* --------------------------------------------------------------- helpers
Last(s) == s[Len(s)]

Alive == panic = "none"

\* a session carries traffic while it is open and, when it was built over a
\* bastion relay, while the bastion session under it is open too
SessAlive(s, id) ==
  /\ id # 0
  /\ s[id].open
  /\ IF s[id].via = 0 THEN TRUE ELSE s[s[id].via].open

Ret(op, ok, port, err) == [op |-> op, ok |-> ok, port |-> port, err |-> err]

\* no call of loadSSHKey is being looked at
NoKeyOut == [out |-> "pending", file |-> <<>>, home |-> FALSE]

KeyParked == keyPath = <<>> /\ keyFs = "missing" /\ keyOut = NoKeyOut

NoTunnel ==
  [sshHost |-> "", sshPort |-> 0, sshUser |-> "", sshKeyPath |-> "",
   bastionHost |-> "", bastionPort |-> 0, bastionUser |-> "", bastionKeyPath |-> ""]

NoError == [step |-> "", cause |-> ""]

\* no connection is being looked at
CfgParked ==
  /\ conn = NoTunnel
  /\ files = <<>>
  /\ tun = NoTunnel
  /\ iolog = <<>>
  /\ gpc = "done"
  /\ gerr = NoError

NoCleanup == [doomed |-> {}, removed |-> {}, err |-> "pending"]

\* no cleanup is being looked at
CleanParked == store = <<>> /\ retain = 0 /\ cmode = "local" /\ cout = NoCleanup

\* no bytes are being looked at
RelayParked == rsock = <<>> /\ rchan = <<>> /\ rtask = <<>>

\* no payload is being looked at
PayParked == rhost = <<>> /\ rport = 0 /\ payload = <<>>

\* a tunnel as NewSSHTunnel returns it: server and targetConn tell whether
\* the handle is set
FreshTunnel ==
  [localPort |-> 0, server |-> FALSE, targetConn |-> FALSE, stopChan |-> "open"]

\* no gateway is being looked at
GwParked ==
  /\ dg = [host |-> "", port |-> 0, effectiveHost |-> "", effectivePort |-> 0]
  /\ dt = FreshTunnel
  /\ dlog = <<>>
  /\ dpanic = "none"

NoEdit == [op |-> "", name |-> 0, val |-> <<>>, err |-> ""]

\* no connections file is being looked at
CmParked == cfile = <<>> /\ cbroken = FALSE /\ cres = NoEdit

NoRun == [err |-> "pending", log |-> <<>>]

\* no backup run is being looked at
UcParked == udbs = <<>> /\ umode = "none" /\ ures = NoRun

AuxParked == UcParked /\ CmParked /\ GwParked /\ PayParked /\ KeyParked /\ CfgParked /\ CleanParked /\ RelayParked

InitTunnel ==
  /\ bastionHost \in {"", "bastion"}
  /\ localPort = 0
  /\ server = 0
  /\ bastionConn = 0
  /\ targetConn = 0
  /\ stopChan = "open"
  /\ lst = <<>>
  /\ sess = <<>>
  /\ relay = <<>>
  /\ loops = <<>>
  /\ conns = <<>>
  /\ callerPc = "idle"
  /\ hist = <<>>
  /\ panic = "none"

Init == InitTunnel /\ AuxParked

\* a tunnel that is constructed and never used
TunnelParked == InitTunnel /\ bastionHost = ""

\* ------------------------------------------------- resources (net, ssh)
\* a Close that forgets the listener without releasing it
CloseListener_leak(l, id) == l

\* net.Listener.Close
CloseListener(l, id) == IF id = 0 THEN l ELSE [l EXCEPT ![id].open = FALSE]

\* a Stop that drops the session handle and leaves the transport up
CloseSession_keep(s, id) == s

\* ssh.Client.Close: closes the session's transport
CloseSession(s, id) == IF id = 0 THEN s ELSE [s EXCEPT ![id].open = FALSE]

\* net.Conn.Close on the raw channel dialed through the bastion
CloseRelay(r, id) == IF id = 0 THEN r ELSE [r EXCEPT ![id].open = FALSE]

\* the raw channel a session was built over (0: a direct TCP dial)
RelayOf(s, id) == IF id = 0 THEN 0 ELSE s[id].rc

NewSession(kind, via, rc) == [kind |-> kind, via |-> via, rc |-> rc, open |-> TRUE]

\* calls the caller has made so far, the one in progress included
Calls == Len(hist) + (IF callerPc = "idle" THEN 0 ELSE 1)

\* ------------------------------------------------------------------ Stop
\* the body of SSHTunnel.Stop; close() of a closed channel panics before
\* anything else is done
StopBody ==
  IF stopChan = "closed"
  THEN /\ panic' = "close of closed channel"
       /\ UNCHANGED <<tunnel, lst, sess, relay>>
  ELSE /\ stopChan' = "closed"
       /\ lst' = CloseListener(lst, server)
       /\ server' = 0
       /\ sess' = CloseSession(CloseSession(sess, targetConn), bastionConn)
       /\ relay' = CloseRelay(relay, RelayOf(sess, targetConn))
       /\ targetConn' = 0
       /\ bastionConn' = 0
       /\ localPort' = 0
       /\ UNCHANGED panic

\* the return of a call whose body may have panicked
RetOrPanic(op, err) ==
  IF stopChan = "closed" THEN Ret(op, FALSE, 0, "panic") ELSE Ret(op, err = "", 0, err)

Stop ==
  /\ Alive
  /\ callerPc = "idle"
  /\ Calls < MaxCalls
  /\ StopBody
  /\ hist' = Append(hist, RetOrPanic("Stop", ""))
  /\ UNCHANGED <<bastionHost, loops, conns, callerPc>>
  /\ UNCHANGED aux

\* ----------------------------------------------------------------- Start
\* a Start without its early return
AlreadyStarted_never(lp) == FALSE

\* the guard at the top of Start
AlreadyStarted(lp) == lp # 0

\* an error return that drops the context naming the failing step
StartFails_bare(err) ==
  /\ hist' = Append(hist, Ret("Start", FALSE, 0, "error"))
  /\ callerPc' = "idle"

\* Start returns an error without any cleanup
StartFails(err) ==
  /\ hist' = Append(hist, Ret("Start", FALSE, 0, err))
  /\ callerPc' = "idle"

\* Start: the guard, then findFreePort (a probe listener on :0, bound and
\* released inside the call) and the assignment of t.localPort
StartCall ==
  /\ Alive
  /\ callerPc = "idle"
  /\ Calls < MaxCalls
  /\ IF AlreadyStarted(localPort)
     THEN /\ hist' = Append(hist, Ret("Start", TRUE, localPort, ""))
          /\ UNCHANGED <<localPort, callerPc>>
     ELSE \/ /\ StartFails("failed to find free port")
             /\ UNCHANGED localPort
          \/ \E p \in Ports :
               /\ localPort' = p
               /\ callerPc' = IF bastionHost # "" THEN "bastion" ELSE "direct"
               /\ UNCHANGED hist
  /\ UNCHANGED <<bastionHost, server, bastionConn, targetConn, stopChan,
                 lst, sess, relay, loops, conns, panic>>
  /\ UNCHANGED aux

\* step 1 of the double hop: createSSHClient for the bastion (key load,
\* then ssh.Dial)
StartBastionDial ==
  /\ Alive
  /\ callerPc = "bastion"
  /\ \/ /\ StartFails("failed to connect to bastion")
        /\ UNCHANGED <<sess, bastionConn>>
     \/ /\ sess' = Append(sess, NewSession("bastion", 0, 0))
        /\ bastionConn' = Len(sess) + 1
        /\ callerPc' = "relay"
        /\ UNCHANGED hist
  /\ UNCHANGED <<bastionHost, localPort, server, targetConn, stopChan,
                 lst, relay, loops, conns, panic>>
  /\ UNCHANGED aux

\* step 2: bastionClient.Dial to the target's ssh port
StartRelayDial ==
  /\ Alive
  /\ callerPc = "relay"
  /\ \/ /\ sess' = CloseSession(sess, bastionConn)
        /\ StartFails("failed to dial target through bastion")
        /\ UNCHANGED relay
     \/ /\ relay' = Append(relay, [via |-> bastionConn, open |-> TRUE])
        /\ callerPc' = "handshake"
        /\ UNCHANGED <<sess, hist>>
  /\ UNCHANGED <<bastionHost, tunnel, lst, loops, conns, panic>>
  /\ UNCHANGED aux

\* step 3: loadSSHKey and ssh.NewClientConn over the raw channel
StartHandshake ==
  /\ Alive
  /\ callerPc = "handshake"
  /\ \/ /\ \E err \in {"failed to load SSH key",
                       "failed to create SSH connection through bastion"} :
             StartFails(err)
        /\ relay' = CloseRelay(relay, Len(relay))
        /\ sess' = CloseSession(sess, bastionConn)
        /\ UNCHANGED targetConn
     \/ /\ sess' = Append(sess, NewSession("target", bastionConn, Len(relay)))
        /\ targetConn' = Len(sess) + 1
        /\ callerPc' = "listen"
        /\ UNCHANGED <<relay, hist>>
  /\ UNCHANGED <<bastionHost, localPort, server, bastionConn, stopChan,
                 lst, loops, conns, panic>>
  /\ UNCHANGED aux

\* the single hop: createSSHClient for the ssh host
StartDirectDial ==
  /\ Alive
  /\ callerPc = "direct"
  /\ \/ /\ StartFails("failed to connect to SSH host")
        /\ UNCHANGED <<sess, targetConn>>
     \/ /\ sess' = Append(sess, NewSession("target", 0, 0))
        /\ targetConn' = Len(sess) + 1
        /\ callerPc' = "listen"
        /\ UNCHANGED hist
  /\ UNCHANGED <<bastionHost, localPort, server, bastionConn, stopChan,
                 lst, relay, loops, conns, panic>>
  /\ UNCHANGED aux

\* a forwardTunnel goroutine as the go statement creates it
NewLoop(srv, tc) == [pc |-> "select", cur |-> 0, srv |-> srv, tc |-> tc]

\* net.Listen on 127.0.0.1:localPort; on failure Start calls t.Stop(), on
\* success it stores the listener and launches forwardTunnel
StartListen ==
  /\ Alive
  /\ callerPc = "listen"
  /\ \/ /\ StopBody
        /\ hist' = Append(hist, RetOrPanic("Start", "failed to create local listener"))
        /\ callerPc' = "idle"
        /\ UNCHANGED loops
     \/ /\ lst' = Append(lst, [port |-> localPort, open |-> TRUE])
        /\ server' = Len(lst) + 1
        /\ loops' = Append(loops, NewLoop(Len(lst) + 1, targetConn))
        /\ callerPc' = "sleep"
        /\ UNCHANGED <<localPort, bastionConn, targetConn, stopChan,
                       sess, relay, hist, panic>>
  /\ UNCHANGED <<bastionHost, conns>>
  /\ UNCHANGED aux

\* the 500ms sleep is over: Start returns t.localPort
StartReturn ==
  /\ Alive
  /\ callerPc = "sleep"
  /\ hist' = Append(hist, Ret("Start", TRUE, localPort, ""))
  /\ callerPc' = "idle"
  /\ UNCHANGED <<bastionHost, tunnel, lst, sess, relay, loops, conns, panic>>
  /\ UNCHANGED aux

\* --------------------------------------------------------- forwardTunnel
\* Stop writes t.server and t.targetConn while the loop reads them with no
\* synchronisation: a read returns the current value or the value this
\* goroutine saw before
Reads(cur, seen) == {cur, seen}

SetLoop(i, l) == [loops EXCEPT ![i] = l]

\* an error branch that returns from the loop instead of continuing
OnOpenChannelError_return(l) == [l EXCEPT !.pc = "done", !.cur = 0]

\* how the loop goes on when OpenChannel returns an error
OnOpenChannelError(l) == [l EXCEPT !.pc = "select", !.cur = 0]

\* a local connection as Accept returns it
NewConn(l) ==
  [st |-> "accepted", lsn |-> l, sess |-> 0, chan |-> FALSE, local |-> TRUE,
   cpeer |-> TRUE, tpeer |-> FALSE, c2t |-> "none", t2c |-> "none"]

\* the non-blocking select on t.stopChan at the top of the loop
LoopSelect(i) ==
  /\ Alive
  /\ loops[i].pc = "select"
  /\ loops' = SetLoop(i, [loops[i] EXCEPT
                 !.pc = IF stopChan = "closed" THEN "done" ELSE "accept"])
  /\ UNCHANGED <<bastionHost, tunnel, lst, sess, relay, conns, callerPc, hist, panic>>
  /\ UNCHANGED aux

\* SetDeadline and Accept on t.server, and the handling of Accept's error
LoopAccept(i) ==
  /\ Alive
  /\ loops[i].pc = "accept"
  /\ \E s \in Reads(server, loops[i].srv) :
       IF s = 0
       THEN /\ panic' = "nil listener"
            /\ UNCHANGED <<loops, conns>>
       ELSE IF lst[s].open
       THEN \/ /\ loops' = SetLoop(i, [loops[i] EXCEPT !.pc = "select", !.srv = s])
               /\ UNCHANGED <<conns, panic>>
            \/ /\ Len(conns) < MaxConns
               /\ conns' = Append(conns, NewConn(s))
               /\ loops' = SetLoop(i, [loops[i] EXCEPT !.pc = "open", !.srv = s,
                                                        !.cur = Len(conns) + 1])
               /\ UNCHANGED panic
       ELSE /\ loops' = SetLoop(i, [loops[i] EXCEPT !.srv = s,
                          !.pc = IF stopChan = "closed" THEN "done" ELSE "select"])
            /\ UNCHANGED <<conns, panic>>
  /\ UNCHANGED <<bastionHost, tunnel, lst, sess, relay, callerPc, hist>>
  /\ UNCHANGED aux

\* t.targetConn.OpenChannel("direct-tcpip", ...) for the accepted
\* connection, then either the error branch or the two copy goroutines
LoopOpenChannel(i) ==
  /\ Alive
  /\ loops[i].pc = "open"
  /\ LET c == loops[i].cur IN
     \E t \in Reads(targetConn, loops[i].tc) :
       IF t = 0
       THEN /\ panic' = "nil targetConn"
            /\ UNCHANGED <<loops, conns>>
       ELSE \/ /\ conns' = [conns EXCEPT ![c].st = "failed", ![c].local = FALSE]
               /\ loops' = SetLoop(i, OnOpenChannelError([loops[i] EXCEPT !.tc = t]))
               /\ UNCHANGED panic
            \/ /\ SessAlive(sess, t)
               /\ conns' = [conns EXCEPT ![c].st = "relaying", ![c].sess = t,
                               ![c].chan = TRUE, ![c].tpeer = TRUE,
                               ![c].c2t = "run", ![c].t2c = "run"]
               /\ loops' = SetLoop(i, [loops[i] EXCEPT !.pc = "select", !.cur = 0, !.tc = t])
               /\ UNCHANGED panic
  /\ UNCHANGED <<bastionHost, tunnel, lst, sess, relay, callerPc, hist>>
  /\ UNCHANGED aux

\* ------------------------------------------------------------ copy tasks
\* the sub-channel of connection c can still carry bytes
ChanUsable(c) == conns[c].chan /\ SessAlive(sess, conns[c].sess)

\* both deferred closes of a copy goroutine
CloseBoth(c, task) ==
  [conns EXCEPT ![c].local = FALSE, ![c].chan = FALSE, ![c][task] = "done"]

\* io.Copy(channel, clientConn) returns: the local client closes its end
\* and the read sees EOF, or the local socket is already closed, or the
\* write to the sub-channel fails
CopyToChannelEnds(c) ==
  /\ Alive
  /\ conns[c].c2t = "run"
  /\ \/ /\ conns[c].cpeer
        /\ conns[c].local
        /\ conns' = [CloseBoth(c, "c2t") EXCEPT ![c].cpeer = FALSE]
     \/ /\ ~conns[c].local \/ ~ChanUsable(c)
        /\ conns' = CloseBoth(c, "c2t")
  /\ UNCHANGED <<bastionHost, tunnel, lst, sess, relay, loops, callerPc, hist, panic>>
  /\ UNCHANGED aux

\* io.Copy(clientConn, channel) returns: the target closes its end and the
\* read sees EOF, or the sub-channel is closed or its session is gone, or
\* the write to the local socket fails
CopyToClientEnds(c) ==
  /\ Alive
  /\ conns[c].t2c = "run"
  /\ \/ /\ conns[c].tpeer
        /\ ChanUsable(c)
        /\ conns' = [CloseBoth(c, "t2c") EXCEPT ![c].tpeer = FALSE]
     \/ /\ ~ChanUsable(c) \/ ~conns[c].local
        /\ conns' = CloseBoth(c, "t2c")
  /\ UNCHANGED <<bastionHost, tunnel, lst, sess, relay, loops, callerPc, hist, panic>>
  /\ UNCHANGED aux

\* --------------------------------------------------------- specification
Next ==
  \/ StartCall
  \/ StartBastionDial
  \/ StartRelayDial
  \/ StartHandshake
  \/ StartDirectDial
  \/ StartListen
  \/ StartReturn
  \/ Stop
  \/ \E i \in DOMAIN loops : LoopSelect(i)
  \/ \E i \in DOMAIN loops : LoopAccept(i)
  \/ \E i \in DOMAIN loops : LoopOpenChannel(i)
  \/ \E c \in DOMAIN conns : CopyToChannelEnds(c)
  \/ \E c \in DOMAIN conns : CopyToClientEnds(c)

Spec == Init /\ [][Next]_vars

\* a step of some forwardTunnel goroutine
LoopStep ==
  \E i \in DOMAIN loops : LoopSelect(i) \/ LoopAccept(i) \/ LoopOpenChannel(i)

\* the Go scheduler runs every runnable goroutine; Accept returns within its
\* one-second deadline
SpecFair == Spec /\ WF_vars(LoopStep)

\* ------------------------------------------------------------ loadSSHKey
\* the characters of a key path: "~", "/", an ordinary character, and "$"
\* for a whole reference to an environment variable that is unset
PathChars == {"~", "/", "k", "$"}

Paths == UNION {[1..n -> PathChars] : n \in 0..MaxPath}

\* os.ExpandEnv: every reference to the unset variable becomes ""
ExpandEnv(p) == SelectSeq(p, LAMBDA ch : ch # "$")

\* loadSSHKey(keyPath) when the file system holds fs at the path it reads:
\* the slice expandedPath[:2] panics on a string shorter than 2, a leading
\* "~/" is replaced by the home directory, then ReadFile and ParsePrivateKey
loadSSHKey(p, fs) ==
  LET expandedPath == ExpandEnv(p) IN
  IF Len(expandedPath) < 2
  THEN [out |-> "panic: slice bounds out of range", file |-> <<>>, home |-> FALSE]
  ELSE LET tilde == SubSeq(expandedPath, 1, 2) = <<"~", "/">>
           file == IF tilde THEN SubSeq(expandedPath, 3, Len(expandedPath))
                   ELSE expandedPath
       IN [out |-> CASE fs = "missing" -> "failed to read SSH key file"
                     [] fs = "garbage" -> "failed to parse SSH key"
                     [] OTHER -> "key",
           file |-> file, home |-> tilde]

InitKey ==
  /\ TunnelParked
  /\ UcParked
  /\ CmParked
  /\ GwParked
  /\ PayParked
  /\ CfgParked
  /\ CleanParked
  /\ RelayParked
  /\ keyPath \in Paths
  /\ keyFs \in {"missing", "garbage", "key"}
  /\ keyOut = NoKeyOut

\* one call of loadSSHKey
LoadKey ==
  /\ keyOut = NoKeyOut
  /\ keyOut' = loadSSHKey(keyPath, keyFs)
  /\ UNCHANGED <<tvars, ucVars, cmVars, gwVars, payVars, cfgVars, cleanVars, relayVars, keyPath, keyFs>>

NextKey == LoadKey

SpecKey == InitKey /\ [][NextKey]_vars

\* ------------------------------- NewDatabaseGateway, NewSSHTunnel, Start
DefaultSSHPort == 22

\* port values of a stored connection: 0 is an omitted field
CfgPorts == {0, DefaultSSHPort, 2222}

KeyPaths == {"ka", "kb"}

Connections ==
  [sshHost : {"", "ssh"}, sshPort : CfgPorts, sshUser : {"su"}, sshKeyPath : {"ka"},
   bastionHost : {"", "bh"}, bastionPort : CfgPorts, bastionUser : {"", "bu"},
   bastionKeyPath : {"", "kb"}]

\* NewSSHTunnel: the fields as passed, the bastion port defaulted
NewSSHTunnel(c) ==
  [c EXCEPT !.bastionPort = IF c.bastionPort = 0 THEN DefaultSSHPort ELSE c.bastionPort]

\* NewDatabaseGateway sets up a tunnel only for a complete SSH configuration
HasTunnel(c) == c.sshHost # "" /\ c.sshUser # "" /\ c.sshKeyPath # ""

\* a variant that takes the bastion's key path as given
BastionKeyPath_asGiven(t) == t.bastionKeyPath

\* the user and key path Start uses for the bastion
BastionUser(t) == IF t.bastionUser = "" THEN t.sshUser ELSE t.bastionUser

BastionKeyPath(t) == IF t.bastionKeyPath = "" THEN t.sshKeyPath ELSE t.bastionKeyPath

IoEvent(ev, host, port, user, key) ==
  [ev |-> ev, host |-> host, port |-> port, user |-> user, key |-> key]

KeyLoad(path) == IoEvent("loadkey", "", 0, "", path)

\* how loadSSHKey fails on the file at path ("" when it returns a key)
KeyFailure(path) ==
  CASE path \notin DOMAIN files -> "failed to read SSH key file"
    [] files[path] = "missing" -> "failed to read SSH key file"
    [] files[path] = "garbage" -> "failed to parse SSH key"
    [] OTHER -> ""

CfgFails(step, cause) ==
  /\ gerr' = [step |-> step, cause |-> cause]
  /\ gpc' = "done"

\* createSSHClient: loadSSHKey first, and ssh.Dial only with a key
CreateSSHClient(host, port, user, kp, step, next) ==
  IF KeyFailure(kp) # ""
  THEN /\ iolog' = Append(iolog, KeyLoad(kp))
       /\ CfgFails(step, KeyFailure(kp))
  ELSE /\ iolog' = iolog \o <<KeyLoad(kp), IoEvent("dial", host, port, user, kp)>>
       /\ \/ CfgFails(step, "dial")
          \/ gpc' = next /\ UNCHANGED gerr

InitCfg ==
  /\ TunnelParked
  /\ UcParked
  /\ CmParked
  /\ GwParked
  /\ PayParked
  /\ KeyParked
  /\ CleanParked
  /\ RelayParked
  /\ conn \in Connections
  /\ files \in [KeyPaths -> {"missing", "garbage", "key"}]
  /\ tun = NoTunnel
  /\ iolog = <<>>
  /\ gpc = "new"
  /\ gerr = NoError

\* NewDatabaseGateway
NewGateway ==
  /\ gpc = "new"
  /\ IF HasTunnel(conn)
     THEN tun' = NewSSHTunnel(conn) /\ gpc' = "start"
     ELSE tun' = NoTunnel /\ gpc' = "done"
  /\ UNCHANGED <<tvars, ucVars, cmVars, gwVars, payVars, keyVars, cleanVars, relayVars, conn, files, iolog, gerr>>

\* Start up to the choice of the single or the double hop
CfgStart ==
  /\ gpc = "start"
  /\ \/ CfgFails("failed to find free port", "listen")
     \/ /\ gpc' = IF tun.bastionHost # "" THEN "bastion" ELSE "direct"
        /\ UNCHANGED gerr
  /\ UNCHANGED <<tvars, ucVars, cmVars, gwVars, payVars, keyVars, cleanVars, relayVars, conn, files, tun, iolog>>

\* step 1 of the double hop
CfgBastion ==
  /\ gpc = "bastion"
  /\ CreateSSHClient(tun.bastionHost, tun.bastionPort, BastionUser(tun),
                     BastionKeyPath(tun), "failed to connect to bastion", "relay")
  /\ UNCHANGED <<tvars, ucVars, cmVars, gwVars, payVars, keyVars, cleanVars, relayVars, conn, files, tun>>

\* step 2: the dial to the ssh host through the bastion
CfgRelay ==
  /\ gpc = "relay"
  /\ iolog' = Append(iolog, IoEvent("dial", tun.sshHost, tun.sshPort, "", ""))
  /\ \/ CfgFails("failed to dial target through bastion", "dial")
     \/ gpc' = "second" /\ UNCHANGED gerr
  /\ UNCHANGED <<tvars, ucVars, cmVars, gwVars, payVars, keyVars, cleanVars, relayVars, conn, files, tun>>

\* step 3: the ssh host's key, then the handshake over the relay channel
CfgSecond ==
  /\ gpc = "second"
  /\ iolog' = Append(iolog, KeyLoad(tun.sshKeyPath))
  /\ IF KeyFailure(tun.sshKeyPath) # ""
     THEN CfgFails("failed to load SSH key", KeyFailure(tun.sshKeyPath))
     ELSE \/ CfgFails("failed to create SSH connection through bastion", "handshake")
          \/ gpc' = "done" /\ UNCHANGED gerr
  /\ UNCHANGED <<tvars, ucVars, cmVars, gwVars, payVars, keyVars, cleanVars, relayVars, conn, files, tun>>

\* the single hop
CfgDirect ==
  /\ gpc = "direct"
  /\ CreateSSHClient(tun.sshHost, tun.sshPort, tun.sshUser, tun.sshKeyPath,
                     "failed to connect to SSH host", "done")
  /\ UNCHANGED <<tvars, ucVars, cmVars, gwVars, payVars, keyVars, cleanVars, relayVars, conn, files, tun>>

NextCfg ==
  \/ NewGateway
  \/ CfgStart
  \/ CfgBastion
  \/ CfgRelay
  \/ CfgSecond
  \/ CfgDirect

SpecCfg == InitCfg /\ [][NextCfg]_vars

\* -------------------------------------------------------- CleanupBackups
\* an entry is a .gz file, a .sql file, another file or a directory; fail
\* tells whether reading its info or removing it fails
Entries ==
  [kind : {"gz", "sql", "txt", "dir"}, mtime : 1..MaxTime,
   fail : {"none", "info", "remove"}]

Listings == UNION {[1..n -> Entries] : n \in 0..MaxFiles}

\* the entries CleanupBackups sorts: locally the regular files ending in
\* .gz or .sql whose info can be read, on S3 every object under the prefix
Candidates(st, mode) ==
  IF mode = "s3" THEN DOMAIN st
  ELSE {i \in DOMAIN st : st[i].kind \in {"gz", "sql"} /\ st[i].fail # "info"}

\* the order sort.Slice is asked for: a is not older than b
NewestFirst(a, b) == a.mtime >= b.mtime

\* the orders sort.Slice may leave the candidates in (it is not stable)
SortedOrders(st, cand) ==
  {o \in [1..Cardinality(cand) -> cand] :
     /\ \A i, j \in DOMAIN o : i # j => o[i] # o[j]
     /\ \A i, j \in DOMAIN o : i < j => NewestFirst(st[o[i]], st[o[j]])}

\* the slice backups[retentionCount:] when there are more than
\* retentionCount candidates
Beyond(o, r) == {o[i] : i \in {k \in DOMAIN o : k > r}}

InitClean ==
  /\ TunnelParked
  /\ UcParked
  /\ CmParked
  /\ GwParked
  /\ PayParked
  /\ KeyParked
  /\ CfgParked
  /\ RelayParked
  /\ store \in Listings
  /\ retain \in 0..MaxRetain
  /\ cmode \in {"local", "s3"}
  /\ cout = NoCleanup

\* CleanupBackups: list, filter, sort newest first, remove the tail; a
\* failed removal is printed and skipped
Cleanup ==
  /\ cout = NoCleanup
  /\ \/ cout' = [doomed |-> {}, removed |-> {}, err |-> "failed to list"]
     \/ \E o \in SortedOrders(store, Candidates(store, cmode)) :
          cout' = [doomed |-> Beyond(o, retain),
                   removed |-> {i \in Beyond(o, retain) :
                                  store[i].fail # "remove"},
                   err |-> ""]
  /\ UNCHANGED <<tvars, ucVars, cmVars, gwVars, payVars, keyVars, cfgVars, relayVars, store, retain, cmode>>

NextClean == Cleanup

SpecClean == InitClean /\ [][NextClean]_vars

\* ------------------------------------------- forwardTunnel: relayed bytes
IsPrefix(a, b) == Len(a) <= Len(b) /\ a = SubSeq(b, 1, Len(a))

Range(q) == {q[i] : i \in DOMAIN q}

RECURSIVE Total(_)
\* the bytes written into the endpoints of q by their peers
Total(q) == IF q = <<>> THEN 0 ELSE Len(Head(q).wr) + Total(Tail(q))

Written == Total(rsock) + Total(rchan)

\* copy tasks that all use the first channel
Captured_shared(k, j) == [sock |-> k, chan |-> 1]

\* clientConn and channel are declared in the loop body: the two closures
\* of an iteration capture that iteration's pair
Captured(k, j) == [sock |-> k, chan |-> j]

\* the two goroutines started for an accepted connection
CopyTasks(k, j) ==
  <<[ref |-> Captured(k, j), dir |-> "up", buf |-> <<>>, pos |-> 0,
     pc |-> "read"],
    [ref |-> Captured(k, j), dir |-> "down", buf |-> <<>>, pos |-> 0,
     pc |-> "read"]>>

\* a copy that puts each chunk in front of what was written before
Deliver_front(dl, buf) == buf \o dl

\* io.Copy writes each chunk it has read after the earlier ones
Deliver(dl, buf) == dl \o buf

\* io.Copy(channel, clientConn) reads the socket, io.Copy(clientConn,
\* channel) reads the channel
Src(t) == IF t.dir = "up" THEN rsock[t.ref.sock] ELSE rchan[t.ref.chan]

Dst(t) == IF t.dir = "up" THEN rchan[t.ref.chan] ELSE rsock[t.ref.sock]

InitRelay ==
  /\ TunnelParked
  /\ UcParked
  /\ CmParked
  /\ GwParked
  /\ PayParked
  /\ KeyParked
  /\ CfgParked
  /\ CleanParked
  /\ RelayParked

\* one iteration of the loop from Accept on: OpenChannel fails and the
\* socket is closed, or a channel is opened and the two copies are started
RelayAccept ==
  /\ Len(rsock) < MaxClients
  /\ LET k == Len(rsock) + 1
         j == Len(rchan) + 1
     IN \/ /\ rsock' = Append(rsock, [open |-> FALSE, chan |-> 0,
                                      wr |-> <<>>, dl |-> <<>>])
           /\ UNCHANGED <<rchan, rtask>>
        \/ /\ rsock' = Append(rsock, [open |-> TRUE, chan |-> j,
                                      wr |-> <<>>, dl |-> <<>>])
           /\ rchan' = Append(rchan, [open |-> TRUE, wr |-> <<>>,
                                      dl |-> <<>>])
           /\ rtask' = rtask \o CopyTasks(k, j)
  /\ UNCHANGED <<tvars, ucVars, cmVars, gwVars, payVars, keyVars, cfgVars, cleanVars>>

\* the local client writes a byte to its socket
ClientWrite(k) ==
  /\ rsock[k].open
  /\ Written < MaxBytes
  /\ rsock' = [rsock EXCEPT ![k].wr = Append(@, <<"client", k, Len(@) + 1>>)]
  /\ UNCHANGED <<tvars, ucVars, cmVars, gwVars, payVars, keyVars, cfgVars, cleanVars, rchan, rtask>>

\* the target writes a byte to the connection behind a channel
TargetWrite(j) ==
  /\ rchan[j].open
  /\ Written < MaxBytes
  /\ rchan' = [rchan EXCEPT ![j].wr = Append(@, <<"target", j, Len(@) + 1>>)]
  /\ UNCHANGED <<tvars, ucVars, cmVars, gwVars, payVars, keyVars, cfgVars, cleanVars, rsock, rtask>>

\* io.Copy reads the next chunk from its source
CopyRead(i) ==
  /\ rtask[i].pc = "read"
  /\ Src(rtask[i]).open
  /\ \E n \in 1..(Len(Src(rtask[i]).wr) - rtask[i].pos) :
       rtask' = [rtask EXCEPT
                   ![i].buf = SubSeq(Src(rtask[i]).wr, rtask[i].pos + 1,
                                     rtask[i].pos + n),
                   ![i].pos = @ + n,
                   ![i].pc = "write"]
  /\ UNCHANGED <<tvars, ucVars, cmVars, gwVars, payVars, keyVars, cfgVars, cleanVars, rsock, rchan>>

\* io.Copy writes the chunk to its destination
CopyWrite(i) ==
  /\ rtask[i].pc = "write"
  /\ Dst(rtask[i]).open
  /\ IF rtask[i].dir = "up"
     THEN /\ rchan' = [rchan EXCEPT ![rtask[i].ref.chan].dl =
                                       Deliver(@, rtask[i].buf)]
          /\ UNCHANGED rsock
     ELSE /\ rsock' = [rsock EXCEPT ![rtask[i].ref.sock].dl =
                                       Deliver(@, rtask[i].buf)]
          /\ UNCHANGED rchan
  /\ rtask' = [rtask EXCEPT ![i].buf = <<>>, ![i].pc = "read"]
  /\ UNCHANGED <<tvars, ucVars, cmVars, gwVars, payVars, keyVars, cfgVars, cleanVars>>

\* a copy goroutine whose deferred calls close the local socket only
CopyEnds_half(i) ==
  /\ rtask[i].pc \in {"read", "write"}
  /\ rsock' = [rsock EXCEPT ![rtask[i].ref.sock].open = FALSE]
  /\ rtask' = [rtask EXCEPT ![i].buf = <<>>, ![i].pc = "done"]
  /\ UNCHANGED <<tvars, ucVars, cmVars, gwVars, payVars, keyVars, cfgVars, cleanVars, rchan>>

\* a Read or Write of io.Copy returns an error or end of file (the peer or
\* the other task closed an end): the deferred calls close both ends
CopyEnds(i) ==
  /\ rtask[i].pc \in {"read", "write"}
  /\ rsock' = [rsock EXCEPT ![rtask[i].ref.sock].open = FALSE]
  /\ rchan' = [rchan EXCEPT ![rtask[i].ref.chan].open = FALSE]
  /\ rtask' = [rtask EXCEPT ![i].buf = <<>>, ![i].pc = "done"]
  /\ UNCHANGED <<tvars, ucVars, cmVars, gwVars, payVars, keyVars, cfgVars, cleanVars>>

NextRelay ==
  \/ RelayAccept
  \/ \E k \in DOMAIN rsock : ClientWrite(k)
  \/ \E j \in DOMAIN rchan : TargetWrite(j)
  \/ \E i \in DOMAIN rtask : CopyRead(i)
  \/ \E i \in DOMAIN rtask : CopyWrite(i)
  \/ \E i \in DOMAIN rtask : CopyEnds(i)

SpecRelay == InitRelay /\ [][NextRelay]_vars

\* the copy tasks that can exist
TaskIds == 1..(2 * MaxClients)

\* a step task i takes without waiting for a peer: the Write of a chunk it
\* holds, or the return of a Read or Write on an end that is closed
CopyGoesOn(i) ==
  /\ i \in DOMAIN rtask
  /\ \/ CopyWrite(i)
     \/ /\ \/ rtask[i].pc = "read" /\ ~Src(rtask[i]).open
           \/ rtask[i].pc = "write" /\ ~Dst(rtask[i]).open
        /\ CopyEnds(i)

\* the Go scheduler runs every runnable goroutine, and a Read or Write on a
\* closed end returns
SpecRelayFair == SpecRelay /\ \A i \in TaskIds : WF_vars(CopyGoesOn(i))

\* ------------------------------------------- forwardTunnel: channelData
\* bytes a host name is made of: "a", "." and a byte above 127
HostBytes == {97, 46, 200}

RemoteHosts == UNION {[1..n -> HostBytes] : n \in 0..MaxHost}

RemotePorts == {0, 1, 255, 256, 3306, 65535}

\* binary.BigEndian.PutUint32 of uint32(n), for the n below 2^31 that
\* lengths and ports are
PutUint32(n) ==
  <<(n \div 16777216) % 256, (n \div 65536) % 256, (n \div 256) % 256,
    n % 256>>

\* originatorIP := []byte{127, 0, 0, 1}
OriginatorIP == <<127, 0, 0, 1>>

\* the channelData of lines 229-238: host length, host, port, originator
\* length, originator, originator port 0
ChannelData(host, port) ==
  PutUint32(Len(host)) \o host \o PutUint32(port)
    \o PutUint32(Len(OriginatorIP)) \o OriginatorIP \o PutUint32(0)

\* the uint32 at position at of b
Uint32At(b, at) ==
  b[at] * 16777216 + b[at + 1] * 65536 + b[at + 2] * 256 + b[at + 3]

\* the direct-tcpip request of RFC 4254, 7.2, read back: string, uint32,
\* string, uint32
Decode(b) ==
  LET hl == Uint32At(b, 1)
      ol == Uint32At(b, 9 + hl)
  IN [host  |-> SubSeq(b, 5, 4 + hl),
      port  |-> Uint32At(b, 5 + hl),
      orig  |-> SubSeq(b, 13 + hl, 12 + hl + ol),
      oport |-> Uint32At(b, 13 + hl + ol),
      rest  |-> Len(b) - (16 + hl + ol)]

\* the characters of "127.0.0.1"
DottedLoopback == <<49, 50, 55, 46, 48, 46, 48, 46, 49>>

InitPay ==
  /\ TunnelParked
  /\ UcParked
  /\ CmParked
  /\ GwParked
  /\ KeyParked
  /\ CfgParked
  /\ CleanParked
  /\ RelayParked
  /\ rhost \in RemoteHosts
  /\ rport \in RemotePorts
  /\ payload = <<>>

\* forwardTunnel builds the payload for an accepted connection
BuildPayload ==
  /\ payload = <<>>
  /\ payload' = ChannelData(rhost, rport)
  /\ UNCHANGED <<tvars, ucVars, cmVars, gwVars, keyVars, cfgVars, cleanVars, relayVars, rhost, rport>>

NextPay == BuildPayload

SpecPay == InitPay /\ [][NextPay]_vars

\* ------------------------------------- DatabaseGateway and its sshTunnel
Loopback == "127.0.0.1"

DbHosts == {"db", Loopback}

\* configured database ports: one that findFreePort can hand out too, and
\* MySQL's
DbPorts == {1, 3306}

\* SSHTunnel.Stop as one call: [t |-> the tunnel after it, panic]
TunnelStop(t) ==
  IF t.stopChan = "closed"
  THEN [t |-> t, panic |-> "close of closed channel"]
  ELSE [t |-> [localPort |-> 0, server |-> FALSE, targetConn |-> FALSE,
               stopChan |-> "closed"],
        panic |-> "none"]

\* SSHTunnel.Start as one call: the outcomes [t, port, err, panic] it can
\* have on tunnel t
TunnelStart(t) ==
  IF t.localPort # 0
  THEN {[t |-> t, port |-> t.localPort, err |-> "", panic |-> "none"]}
  ELSE {[t |-> t, port |-> 0, err |-> "failed to find free port",
         panic |-> "none"]}
       \cup UNION {
         LET t1 == [t EXCEPT !.localPort = p] IN
         { [t |-> t1, port |-> 0, err |-> "failed to connect to SSH host",
            panic |-> "none"],
           [t |-> TunnelStop([t1 EXCEPT !.targetConn = TRUE]).t, port |-> 0,
            err |-> "failed to create local listener",
            panic |-> TunnelStop([t1 EXCEPT !.targetConn = TRUE]).panic],
           [t |-> [t1 EXCEPT !.targetConn = TRUE, !.server = TRUE],
            port |-> p, err |-> "", panic |-> "none"] } : p \in Ports}

\* ensureSSHTunnel on gateway g with tunnel t: the outcomes [g, t, err, panic]
EnsureSSHTunnel(g, t) ==
  IF g.effectiveHost = g.host /\ g.effectivePort = g.port
  THEN {[g |-> IF o.err = ""
               THEN [g EXCEPT !.effectiveHost = Loopback,
                              !.effectivePort = o.port]
               ELSE g,
         t |-> o.t, err |-> o.err, panic |-> o.panic] : o \in TunnelStart(t)}
  ELSE {[g |-> g, t |-> t, err |-> "", panic |-> "none"]}

InitGw ==
  /\ TunnelParked
  /\ UcParked
  /\ CmParked
  /\ PayParked
  /\ KeyParked
  /\ CfgParked
  /\ CleanParked
  /\ RelayParked
  /\ \E h \in DbHosts, p \in DbPorts :
       dg = [host |-> h, port |-> p, effectiveHost |-> h, effectivePort |-> p]
  /\ dt = FreshTunnel
  /\ dlog = <<>>
  /\ dpanic = "none"

\* a call that starts with ensureSSHTunnel and then uses the effective
\* address
GwCall(op) ==
  /\ dpanic = "none"
  /\ Len(dlog) < MaxOps
  /\ \E o \in EnsureSSHTunnel(dg, dt) :
       /\ dg' = o.g
       /\ dt' = o.t
       /\ dpanic' = o.panic
       /\ dlog' = Append(dlog, [op |-> op, err |-> o.err,
                                host |-> IF o.err = "" THEN o.g.effectiveHost ELSE "",
                                port |-> IF o.err = "" THEN o.g.effectivePort ELSE 0])
  /\ UNCHANGED <<tvars, ucVars, cmVars, payVars, keyVars, cfgVars, cleanVars, relayVars>>

ListDatabases == GwCall("ListDatabases")

BackupDatabase == GwCall("BackupDatabase")

\* Close: cleanupSSHTunnel stops the tunnel and resets the effective address
Close ==
  /\ dpanic = "none"
  /\ Len(dlog) < MaxOps
  /\ LET o == TunnelStop(dt) IN
       /\ dt' = o.t
       /\ dpanic' = o.panic
       /\ dg' = IF o.panic = "none"
                THEN [dg EXCEPT !.effectiveHost = dg.host,
                                !.effectivePort = dg.port]
                ELSE dg
       /\ dlog' = Append(dlog, [op |-> "Close",
                                err |-> IF o.panic = "none" THEN "" ELSE "panic",
                                host |-> "", port |-> 0])
  /\ UNCHANGED <<tvars, ucVars, cmVars, payVars, keyVars, cfgVars, cleanVars, relayVars>>

NextGw == ListDatabases \/ BackupDatabase \/ Close

SpecGw == InitGw /\ [][NextGw]_vars

\* ----------------------------------------------------- ConnectionManager
Names == 1..MaxNames

\* Connection values: a field that is always written and one with omitempty
ConnValues == [host : {"h1", "h2"}, sshPort : {0, DefaultSSHPort}]

\* json.MarshalIndent of a Connection: ssh_port is omitted when it is 0
MarshalConn(c) ==
  IF c.sshPort = 0
  THEN [k \in {"host"} |-> c.host]
  ELSE [k \in {"host", "ssh_port"} |-> IF k = "host" THEN c.host ELSE c.sshPort]

\* json.Unmarshal into a Connection: an absent ssh_port is 0
UnmarshalConn(o) ==
  [host |-> o["host"],
   sshPort |-> IF "ssh_port" \in DOMAIN o THEN o["ssh_port"] ELSE 0]

\* saveConnections writes the marshalled map
Marshal(m) == [n \in DOMAIN m |-> MarshalConn(m[n])]

\* loadConnections reads it back
Unmarshal(f) == [n \in DOMAIN f |-> UnmarshalConn(f[n])]

\* an edit that is never checked against the stored names
Conflict_none(op, m, name) == ""

\* the checks of AddConnection, RemoveConnection and UpdateConnection
Conflict(op, m, name) ==
  IF op = "Add"
  THEN IF name \in DOMAIN m THEN "already exists" ELSE ""
  ELSE IF name \notin DOMAIN m THEN "not found" ELSE ""

\* the map an edit saves
Edited(op, m, name, v) ==
  IF op = "Remove"
  THEN [n \in DOMAIN m \ {name} |-> m[n]]
  ELSE [n \in DOMAIN m \cup {name} |-> IF n = name THEN v ELSE m[n]]

InitCm ==
  /\ TunnelParked
  /\ UcParked
  /\ GwParked
  /\ PayParked
  /\ KeyParked
  /\ CfgParked
  /\ CleanParked
  /\ RelayParked
  /\ cfile = <<>>
  /\ cbroken = FALSE
  /\ cres = NoEdit

\* load, check, change and save: the body the three edits share
Edit(op, name, v) ==
  /\ IF cbroken
     THEN /\ cres' = [op |-> op, name |-> name, val |-> v,
                      err |-> "failed to parse connections file"]
          /\ UNCHANGED <<cfile, cbroken>>
     ELSE LET m == Unmarshal(cfile) IN
          \/ /\ cres' = [op |-> op, name |-> name, val |-> v,
                         err |-> "failed to read connections file"]
             /\ UNCHANGED <<cfile, cbroken>>
          \/ /\ Conflict(op, m, name) # ""
             /\ cres' = [op |-> op, name |-> name, val |-> v,
                         err |-> Conflict(op, m, name)]
             /\ UNCHANGED <<cfile, cbroken>>
          \/ /\ Conflict(op, m, name) = ""
             /\ \/ /\ cfile' = Marshal(Edited(op, m, name, v))
                   /\ cres' = [op |-> op, name |-> name, val |-> v, err |-> ""]
                   /\ UNCHANGED cbroken
                \/ /\ cbroken' = TRUE
                   /\ cfile' = <<>>
                   /\ cres' = [op |-> op, name |-> name, val |-> v,
                               err |-> "failed to write connections file"]
  /\ UNCHANGED <<tvars, ucVars, gwVars, payVars, keyVars, cfgVars, cleanVars, relayVars>>

AddConnection == \E name \in Names, v \in ConnValues : Edit("Add", name, v)

RemoveConnection == \E name \in Names : Edit("Remove", name, <<>>)

UpdateConnection == \E name \in Names, v \in ConnValues : Edit("Update", name, v)

NextCm == AddConnection \/ RemoveConnection \/ UpdateConnection

SpecCm == InitCm /\ [][NextCm]_vars

\* ------------------------------------------------- BackupUseCase.Execute
\* the step that fails for a database, if any
Faults == {"", "mkdir", "dump", "store", "cleanup"}

DbLists == UNION {[1..n -> Faults] : n \in 0..MaxDbs}

RECURSIVE Loop(_, _, _, _)
\* a loop that a failed BackupDatabase ends
Loop_abort(i, dbs, mode, log) ==
  IF i > Len(dbs) \/ mode = "none"
  THEN [err |-> "", log |-> log]
  ELSE LET l1 == IF mode = "local" THEN Append(log, <<i, "mkdir">>) ELSE log
       IN IF mode = "local" /\ dbs[i] = "mkdir"
          THEN [err |-> "failed to create backup directory", log |-> l1]
          ELSE IF dbs[i] = "dump"
          THEN [err |-> "", log |-> Append(l1, <<i, "dump">>)]
          ELSE Loop(i + 1, dbs, mode,
                    l1 \o <<<<i, "dump">>, <<i, "store">>, <<i, "cleanup">>>>)

\* the loop over the databases from database i on, with the calls made so
\* far in log: MkdirAll (local mode only) returns its error, a failed
\* BackupDatabase skips the database, StoreBackup and CleanupBackups
\* failures are printed
Loop(i, dbs, mode, log) ==
  IF i > Len(dbs) \/ mode = "none"
  THEN [err |-> "", log |-> log]
  ELSE LET l1 == IF mode = "local" THEN Append(log, <<i, "mkdir">>) ELSE log
       IN IF mode = "local" /\ dbs[i] = "mkdir"
          THEN [err |-> "failed to create backup directory", log |-> l1]
          ELSE IF dbs[i] = "dump"
          THEN Loop(i + 1, dbs, mode, Append(l1, <<i, "dump">>))
          ELSE Loop(i + 1, dbs, mode,
                    l1 \o <<<<i, "dump">>, <<i, "store">>, <<i, "cleanup">>>>)

InitUc ==
  /\ TunnelParked
  /\ CmParked
  /\ GwParked
  /\ PayParked
  /\ KeyParked
  /\ CfgParked
  /\ CleanParked
  /\ RelayParked
  /\ udbs \in DbLists
  /\ umode \in {"local", "s3", "none"}
  /\ ures = NoRun

\* Execute: ListDatabases fails, or the loop runs over the databases
Execute ==
  /\ ures = NoRun
  /\ \/ ures' = [err |-> "failed to list databases", log |-> <<>>]
     \/ ures' = Loop(1, udbs, umode, <<>>)
  /\ UNCHANGED <<tvars, cmVars, gwVars, payVars, keyVars, cfgVars, cleanVars,
                 relayVars, udbs, umode>>

NextUc == Execute

SpecUc == InitUc /\ [][NextUc]_vars

\* ------------------------------------------------------ the call history
Idle == callerPc = "idle"

\* the caller is between calls and the last call it completed is op
Returned(op) == Idle /\ Alive /\ Len(hist) > 0 /\ Last(hist).op = op

StopsIn(h) == {i \in DOMAIN h : h[i].op = "Stop"}

LastStopIn(h) == IF StopsIn(h) = {} THEN 0
                 ELSE CHOOSE i \in StopsIn(h) : \A j \in StopsIn(h) : j <= i

\* the Starts that succeeded since the last Stop
OkStarts(h) == {i \in DOMAIN h : i > LastStopIn(h) /\ h[i].op = "Start" /\ h[i].ok}

\* Start has succeeded and Stop has not been called since
Running(h) == OkStarts(h) # {}

RunningPort(h) == h[CHOOSE i \in OkStarts(h) : TRUE].port

\* this step is the caller entering Start
StartIsCalled ==
  /\ Idle
  /\ \/ callerPc' # "idle"
     \/ Len(hist') = Len(hist) + 1 /\ Last(hist').op = "Start"

\* this step is a Stop call that returns
StopReturns ==
  /\ Idle
  /\ Len(hist') = Len(hist) + 1
  /\ Last(hist').op = "Stop"
  /\ Last(hist').ok

AllListenersClosed == \A l \in DOMAIN lst : ~lst[l].open
AllSessionsClosed == \A x \in DOMAIN sess : ~sess[x].open
AllRelaysClosed == \A r \in DOMAIN relay : ~relay[r].open
LoopAlive == \E i \in DOMAIN loops : loops[i].pc # "done"

\* ---------------------------------------------------------------- claims

\* C1: while the tunnel is running (Start has succeeded, no Stop since), a
\* further Start returns at once with the same port: no dial, no new
\* listener, no new accept loop, no change to the tunnel's fields.
C1_StartIdempotent ==
  [][(Running(hist) /\ StartIsCalled) =>
       /\ callerPc' = "idle"
       /\ Last(hist').ok
       /\ Last(hist').port = RunningPort(hist)
       /\ UNCHANGED <<tunnel, lst, sess, relay, loops>>]_vars

\* two Starts in a row have succeeded on a tunnel that holds its listener
C1_Witness ==
  /\ Returned("Start")
  /\ Cardinality(OkStarts(hist)) >= 2
  /\ server # 0
  /\ Len(lst) = 1

\* C2: no call of Stop panics, whatever calls came before it.
C2_StopNeverPanics == panic # "close of closed channel"

\* C3: when Start has returned an error the tunnel is idle: localPort is 0,
\* no handle is held, and every listener, session and relay channel is
\* closed.
C3_FailedStartIsIdle ==
  (Returned("Start") /\ ~Last(hist).ok) =>
     /\ localPort = 0
     /\ server = 0
     /\ targetConn = 0
     /\ bastionConn = 0
     /\ AllListenersClosed
     /\ AllSessionsClosed
     /\ AllRelaysClosed

\* C4: when Start has returned a port without error, the tunnel holds an
\* open listener on that port, a live target session and a live accept
\* loop.
C4_SuccessMeansListening ==
  (Returned("Start") /\ Last(hist).ok) =>
     /\ server # 0
     /\ lst[server].open
     /\ lst[server].port = Last(hist).port
     /\ SessAlive(sess, targetConn)
     /\ LoopAlive

\* Start, Stop, Start have all returned without error, in that order, and
\* the second Start is the last call
Restarted ==
  /\ Returned("Start")
  /\ Last(hist).ok
  /\ \E i, j \in DOMAIN hist :
       /\ i < j
       /\ j < Len(hist)
       /\ hist[i].op = "Start" /\ hist[i].ok
       /\ hist[j].op = "Stop" /\ hist[j].ok
       /\ \A k \in (j + 1)..(Len(hist) - 1) : hist[k].op = "Start"

\* C5: after Start, Stop, Start the tunnel is running again: it holds an
\* open listener and an accept loop that has not returned.
C5_RestartKeepsAccepting ==
  Restarted => (server # 0 /\ lst[server].open /\ LoopAlive)

\* C6: after Stop has returned the tunnel is as NewSSHTunnel made it.
C6_StopRestoresFresh ==
  Returned("Stop") =>
     /\ localPort = 0
     /\ server = 0
     /\ targetConn = 0
     /\ bastionConn = 0
     /\ stopChan = "open"

\* C7: between completed calls, localPort # 0 iff a listener is held iff
\* the tunnel is running.
C7_PortListenerRunning ==
  (Idle /\ Alive) =>
     /\ (localPort # 0) <=> (server # 0)
     /\ (server # 0) <=> Running(hist)

\* C8: when Stop has returned, every listener this tunnel has bound is
\* closed, the one of the last successful Start included, and no accept
\* loop is left holding an open listener.
C8_StopClosesListener ==
  Returned("Stop") =>
     /\ server = 0
     /\ AllListenersClosed
     /\ \A i \in DOMAIN loops : loops[i].srv # 0 => ~lst[loops[i].srv].open

\* Stop has returned after a Start that bound a listener
C8_Witness ==
  /\ Returned("Stop")
  /\ Len(hist) >= 2
  /\ hist[Len(hist) - 1].op = "Start"
  /\ hist[Len(hist) - 1].ok
  /\ Len(lst) >= 1

\* this step is OpenChannel failing for connection c
OpenFails(c) == conns[c].st = "accepted" /\ conns'[c].st = "failed"

\* C9: when OpenChannel fails for an accepted connection, that connection
\* is closed, every other connection is untouched, the loop that accepted
\* it goes back to the top of its loop, and nothing of the tunnel changes.
C9_OpenFailureIsContained ==
  [][\A c \in DOMAIN conns : OpenFails(c) =>
       /\ ~conns'[c].local
       /\ \A d \in DOMAIN conns : d # c => conns'[d] = conns[d]
       /\ \A i \in DOMAIN loops :
            IF loops[i].cur = c
            THEN loops'[i].pc = "select"
            ELSE loops'[i].pc = loops[i].pc
       /\ panic' = "none"
       /\ UNCHANGED <<tunnel, lst, sess, relay>>]_vars

\* a connection was accepted and forwarded after an earlier one failed
C9_Witness ==
  \E c, d \in DOMAIN conns :
    /\ c < d
    /\ conns[c].st = "failed"
    /\ conns[d].st = "relaying"
    /\ LoopAlive

Relaying(c) == conns[c].st = "relaying"

PeersOpen(c) == conns[c].cpeer /\ conns[c].tpeer

BastionDialFails == callerPc = "bastion" /\ callerPc' = "idle"

\* C11: in two-hop mode, when the bastion session cannot be established,
\* Start returns the error that names the bastion, opens no relay channel,
\* no session and no listener, launches no loop, and no listener is bound
\* afterwards.
C11_BastionFailureOpensNothing ==
  [][BastionDialFails =>
       /\ Last(hist').op = "Start"
       /\ ~Last(hist').ok
       /\ Last(hist').err = "failed to connect to bastion"
       /\ UNCHANGED <<server, bastionConn, targetConn, lst, sess, relay, loops>>
       /\ \A l \in DOMAIN lst : ~lst[l].open]_vars

\* a two-hop Start has failed at the bastion
C11_Witness ==
  /\ Returned("Start")
  /\ bastionHost # ""
  /\ Last(hist).err = "failed to connect to bastion"
  /\ sess = <<>>

\* the lifecycle state a caller can observe
Life ==
  IF callerPc # "idle" THEN "Starting"
  ELSE IF Running(hist) THEN "Running"
  ELSE "Idle"

\* the transitions of the lifecycle; Stop is one step, so Running -> Stopping
\* -> Idle shows as Running -> Idle
LifeMoves ==
  {<<"Idle", "Starting">>, <<"Starting", "Running">>,
   <<"Starting", "Idle">>, <<"Running", "Idle">>}

\* C19: the lifecycle moves only along Idle -> Starting -> Running ->
\* (Stopping ->) Idle, or Starting -> Idle on a setup failure.
C19_LifecycleMoves ==
  [][(Alive' /\ Life' # Life) => <<Life, Life'>> \in LifeMoves]_vars

\* Stop has returned on a tunnel that some Start had set running
StoppedAfterRunning ==
  \E i, j \in DOMAIN hist :
    /\ i < j
    /\ hist[i].op = "Start" /\ hist[i].ok
    /\ hist[j].op = "Stop" /\ hist[j].ok

AllLoopsDone == \A i \in DOMAIN loops : loops[i].pc = "done"

\* C20: once Stop has returned on a running tunnel, every accept loop
\* eventually returns.
C20_LoopTerminates == StoppedAfterRunning ~> AllLoopsDone

\* C13: loadSSHKey returns an error or a key, and does not panic, for every
\* key path whose expanded form has fewer than two characters.
C13_ShortPathNoPanic ==
  (keyOut # NoKeyOut /\ Len(ExpandEnv(keyPath)) < 2) =>
     keyOut.out \in {"failed to read SSH key file", "failed to parse SSH key", "key"}

\* the dials recorded so far
Dials == {i \in DOMAIN iolog : iolog[i].ev = "dial"}

\* the key files Start needs for the tunnel
NeededKeys ==
  IF tun.bastionHost # "" THEN {tun.sshKeyPath, BastionKeyPath(tun)}
  ELSE {tun.sshKeyPath}

\* Start has returned and a key file it needs does not exist
StartedWithMissingKey ==
  /\ gpc = "done"
  /\ HasTunnel(conn)
  /\ gerr.step # "failed to find free port"
  /\ \E k \in NeededKeys : files[k] = "missing"

\* C12: when a key file the tunnel needs does not exist, Start fails with
\* the key-read error and has made no network dial.
C12_MissingKeyNoDial ==
  StartedWithMissingKey =>
     (gerr.cause = "failed to read SSH key file" /\ Dials = {})

\* the bastion's connection attempt has been made
BastionTried == HasTunnel(conn) /\ conn.bastionHost # "" /\ iolog # <<>>

\* C16: the bastion session uses the bastion's own user and key path when
\* they are set and the ssh host's user and key path when they are empty,
\* each field on its own.
C16_BastionDefaults ==
  BastionTried =>
     /\ iolog[1].ev = "loadkey"
     /\ iolog[1].key = IF conn.bastionKeyPath = "" THEN conn.sshKeyPath
                       ELSE conn.bastionKeyPath
     /\ Len(iolog) >= 2 =>
          /\ iolog[2].host = conn.bastionHost
          /\ iolog[2].key = iolog[1].key
          /\ iolog[2].user = IF conn.bastionUser = "" THEN conn.sshUser
                             ELSE conn.bastionUser

\* the bastion was dialed with a user that defaulted and a key of its own
C16_Witness ==
  /\ BastionTried
  /\ Len(iolog) >= 2
  /\ conn.bastionUser = ""
  /\ iolog[2].user = "su"
  /\ iolog[2].key = "kb"

\* C17: no hop is dialed on port 0: an omitted ssh_port or bastion_port is
\* dialed as port 22.
C17_OmittedPortIs22 ==
  \A i \in Dials :
    /\ iolog[i].port # 0
    /\ (iolog[i].host = conn.sshHost /\ conn.sshPort = 0) =>
          iolog[i].port = DefaultSSHPort
    /\ (iolog[i].host = conn.bastionHost /\ conn.bastionPort = 0) =>
          iolog[i].port = DefaultSSHPort

\* the backup files of the database: regular files ending in .sql or .gz
Backups == {i \in DOMAIN store : store[i].kind \in {"gz", "sql"}}

Remaining == Backups \ cout.removed

\* C18: after CleanupBackups has returned without error for retention count
\* R, at most R backup files remain, no removed backup is newer than one
\* that remains, and with R or fewer backups nothing is deleted
C18_RetentionKeepsNewest ==
  cout.err = "" =>
    /\ Cardinality(Remaining) <= retain
    /\ \A i \in Remaining, j \in Backups \cap cout.removed :
         store[i].mtime >= store[j].mtime
    /\ Cardinality(Backups) <= retain => cout.removed = {}

\* C14: for each forwarded connection, what has been delivered to the
\* target is a prefix of what the client wrote and what has been delivered
\* to the client is a prefix of what the target wrote
C14_DeliveredIsPrefix ==
  \A k \in DOMAIN rsock :
    IF rsock[k].chan = 0
    THEN rsock[k].dl = <<>>
    ELSE /\ IsPrefix(rchan[rsock[k].chan].dl, rsock[k].wr)
         /\ IsPrefix(rsock[k].dl, rchan[rsock[k].chan].wr)

C14_Witness ==
  \E k \in DOMAIN rsock :
    /\ rsock[k].chan # 0
    /\ Len(rchan[rsock[k].chan].dl) >= 2
    /\ \E i \in DOMAIN rtask : rtask[i].pc = "done"

\* C15: accepted connections have different sub-channels, and a byte a
\* client wrote is delivered on no sub-channel but its own connection's and
\* on no other client's socket
C15_NoCrossDelivery ==
  /\ \A k1, k2 \in DOMAIN rsock :
       (k1 # k2 /\ rsock[k1].chan # 0) => rsock[k1].chan # rsock[k2].chan
  /\ \A k \in DOMAIN rsock : \A b \in Range(rsock[k].wr) :
       /\ \A j \in DOMAIN rchan :
            b \in Range(rchan[j].dl) => j = rsock[k].chan
       /\ \A k2 \in DOMAIN rsock :
            k2 # k => b \notin Range(rsock[k2].dl)

C15_Witness ==
  \E k1, k2 \in DOMAIN rsock :
    /\ k1 # k2
    /\ rsock[k1].open /\ rsock[k2].open
    /\ rsock[k1].chan # 0 /\ rsock[k2].chan # 0
    /\ rchan[rsock[k1].chan].dl # <<>>
    /\ rchan[rsock[k2].chan].dl # <<>>

\* the copy tasks of connection k
TasksOf(k) == {i \in DOMAIN rtask : rtask[i].ref.sock = k}

OneTaskDone(k) ==
  k \in DOMAIN rsock /\ \E i \in TasksOf(k) : rtask[i].pc = "done"

BothTasksDone(k) ==
  k \in DOMAIN rsock /\ \A i \in TasksOf(k) : rtask[i].pc = "done"

\* the socket and the sub-channel of a forwarded connection are open
\* together or closed together, and closed once one of its tasks is done
ClosedTogether ==
  \A k \in DOMAIN rsock :
    rsock[k].chan # 0 =>
      /\ rsock[k].open = rchan[rsock[k].chan].open
      /\ OneTaskDone(k) => ~rsock[k].open

\* C21: when one copy task of a forwarded connection has finished, the
\* socket and the sub-channel are both closed and the other task finishes
\* too; no connection has only one of its two ends open
C21_BothEndsCloseTogether ==
  /\ []ClosedTogether
  /\ \A k \in 1..MaxClients : OneTaskDone(k) ~> BothTasksDone(k)

C21_Witness ==
  \E k \in DOMAIN rsock :
    /\ rsock[k].chan # 0
    /\ BothTasksDone(k)
    /\ ~rsock[k].open /\ ~rchan[rsock[k].chan].open
    /\ rchan[rsock[k].chan].dl # <<>>

\* Start returns an error from the relay dial or from the second handshake
TwoHopFails == callerPc \in {"relay", "handshake"} /\ callerPc' = "idle"

\* C22: when Start fails at the relay dial or at the second handshake, the
\* bastion session is closed, the relay channel too if it was opened, and
\* the tunnel holds no handle to the bastion session when Start returns
C22_TwoHopFailureReleases ==
  [][TwoHopFails =>
       /\ ~sess'[bastionConn].open
       /\ callerPc = "handshake" => ~relay'[Len(relay)].open
       /\ bastionConn' = 0]_vars

\* the forwardTunnel goroutines that have not returned
ActiveLoops == {i \in DOMAIN loops : loops[i].pc # "done"}

\* C23: at every moment at most one forwardTunnel accept loop is active
C23_OneAcceptLoop == Alive => Cardinality(ActiveLoops) <= 1

\* C24: read back with the standard layout, the payload is the record
\* (remote host, remote port, "127.0.0.1", 0) and nothing else
C24_PayloadRoundTrip ==
  payload # <<>> =>
    Decode(payload) = [host |-> rhost, port |-> rport,
                       orig |-> DottedLoopback, oport |-> 0, rest |-> 0]

\* this step makes the tunnel observable as running: localPort becomes
\* non-zero
MarkedRunning == localPort = 0 /\ localPort' # 0

\* C25: within Start the tunnel is marked running only after the session,
\* the listener on the allocated port and the accept loop exist
C25_MarkedRunningLast ==
  [][MarkedRunning =>
       /\ SessAlive(sess', targetConn')
       /\ server' # 0
       /\ lst'[server'].open
       /\ lst'[server'].port = localPort'
       /\ LoopAlive']_vars

\* C26: forwardTunnel never runs SetDeadline/Accept on a nil t.server nor
\* OpenChannel on a nil t.targetConn
C26_NoNilHandleUse == panic \notin {"nil listener", "nil targetConn"}

\* the gateway's tunnel holds its listener and its target session
GwTunnelRunning == dt.server /\ dt.targetConn

\* two calls that used the database with no Close between them
SameRun(i, j) ==
  /\ i < j
  /\ dlog[i].err = "" /\ dlog[j].err = ""
  /\ \A k \in i..j : dlog[k].op # "Close"

\* C27: between the calls on a gateway with a tunnel, the effective address
\* is (127.0.0.1, the tunnel's localPort) when the tunnel is running and the
\* configured (host, port) otherwise, and calls with no Close between them
\* use the same address
C27_EffectiveAddress ==
  dpanic = "none" =>
    /\ IF GwTunnelRunning
       THEN dg.effectiveHost = Loopback /\ dg.effectivePort = dt.localPort
       ELSE dg.effectiveHost = dg.host /\ dg.effectivePort = dg.port
    /\ \A i, j \in DOMAIN dlog :
         SameRun(i, j) => dlog[i].port = dlog[j].port

\* C28: Close never panics, whatever the tunnel start before it did
C28_CloseNeverPanics == dpanic = "none"

\* the stored connections, as loadConnections returns them
Stored == Unmarshal(cfile)

\* the edit of this step conflicts with the stored names
Conflicting ==
  \/ cres'.op = "Add" /\ cres'.name \in DOMAIN Stored
  \/ cres'.op \in {"Remove", "Update"} /\ cres'.name \notin DOMAIN Stored

\* this step is an edit of a file that can be read
EditStep == ~cbroken /\ cres'.op # "" /\ cres' # cres

\* C29: an Add of an existing name and a Remove or Update of a missing one
\* return an error and leave the stored connections as they were; an edit
\* that succeeds adds, removes or replaces the named entry and leaves every
\* other entry as it was
C29_EditsAreExact ==
  [][EditStep =>
       /\ Conflicting => (cres'.err # "" /\ cfile' = cfile /\ ~cbroken')
       /\ cres'.err = "" =>
            /\ ~Conflicting
            /\ \A n \in Names \ {cres'.name} :
                 /\ (n \in DOMAIN Stored') <=> (n \in DOMAIN Stored)
                 /\ n \in DOMAIN Stored => Stored'[n] = Stored[n]
            /\ IF cres'.op = "Remove"
               THEN cres'.name \notin DOMAIN Stored'
               ELSE /\ cres'.name \in DOMAIN Stored'
                    /\ Stored'[cres'.name] = cres'.val]_vars

C29_Witness ==
  /\ cres.err \in {"already exists", "not found"}
  /\ Cardinality(DOMAIN Stored) >= 2
  /\ \E n \in DOMAIN Stored : Stored[n].sshPort = 0

\* the calls Execute made for database i
Did(i, op) == \E k \in DOMAIN ures.log : ures.log[k] = <<i, op>>

\* BackupDatabase was called for database i and failed
DumpFailed(i) == Did(i, "dump") /\ udbs[i] = "dump"

\* C30 as claimed: when BackupDatabase has failed for a database, nothing
\* is stored or cleaned up for it, BackupDatabase is still called for every
\* other database of the list, and Execute returns nil
C30_FailuresAreIsolated ==
  (ures # NoRun /\ \E i \in DOMAIN udbs : DumpFailed(i)) =>
     /\ ures.err = ""
     /\ \A i \in DOMAIN udbs :
          /\ Did(i, "dump")
          /\ DumpFailed(i) => ~Did(i, "store") /\ ~Did(i, "cleanup")

\* the first database whose backup directory cannot be created, or one past
\* the list
FirstMkdirFailure ==
  LET bad == {i \in DOMAIN udbs : umode = "local" /\ udbs[i] = "mkdir"}
  IN IF bad = {} THEN Len(udbs) + 1
     ELSE CHOOSE i \in bad : \A j \in bad : i <= j

\* Execute got past ListDatabases and has a destination
LoopRan == ures # NoRun /\ ures.err # "failed to list databases" /\ umode # "none"

\* C30 as amended: a database whose BackupDatabase fails is skipped (nothing stored,
\* nothing cleaned up) and the loop goes on with the next one; the loop ends
\* early only at the first database whose backup directory cannot be
\* created, where Execute returns that error; otherwise it returns nil
C30_IsolatedUntilMkdirFails ==
  LoopRan =>
    /\ (ures.err = "") <=> (FirstMkdirFailure > Len(udbs))
    /\ \A i \in DOMAIN udbs :
         IF i < FirstMkdirFailure
         THEN /\ Did(i, "dump")
              /\ Did(i, "store") <=> (udbs[i] # "dump")
              /\ Did(i, "cleanup") <=> (udbs[i] # "dump")
         ELSE ~Did(i, "dump")

C30_Witness ==
  /\ LoopRan
  /\ ures.err = ""
  /\ \E i, j \in DOMAIN udbs :
       i < j /\ DumpFailed(i) /\ Did(j, "store") /\ Did(j, "cleanup")
====
